---- MODULE Spec2Model ----
(***************************************************************************)
(* maisonServeur (src/server.js): property listings, manual payments and   *)
(* the admin moderation routes, over four JSON collection files, the       *)
(* uploads directory and the admin action log.                             *)
(*                                                                         *)
(* Every route handler is synchronous (readJsonSync / writeJsonSync /      *)
(* appendFileSync), so Node runs it to completion before any other         *)
(* handler.  POST /api/admin/validerPaiement is modelled in two steps,     *)
(* because it writes two collection files one after the other and the     *)
(* files on disk are visible between the two writes.  POST /api/maisons   *)
(* is one step: multer stores the request's files and the handler then    *)
(* keeps or removes exactly those files.                                   *)
(* Each route has an operator (lower-case name) giving, for a request, the *)
(* response and the files as the handler leaves them, and an action that   *)
(* applies it.  uuidv4() yields an identifier never issued before;         *)
(* identifiers are only ever compared within one collection, so they are   *)
(* numbered per kind of record.  Timestamps, the free-text fields no       *)
(* handler inspects and the details text of a log line are left out.       *)
(* A second set of definitions gives the admin routes with one call to the *)
(* file system failing (see "Storage failures").                           *)
(***************************************************************************)
EXTENDS Integers, Sequences, FiniteSets, TLC

VARIABLES
    maisons,        \* data/maisons.json        : sequence of listing records
    utilisateurs,   \* data/utilisateurs.json   : sequence of user records
    paiements,      \* data/paiements.json      : sequence of payment records
    transactions,   \* data/transactions.json   : sequence of transaction records
    uploads,        \* uploads/                 : set of stored file names
    adminLog,       \* logs/admin-actions.log   : sequence of lines
    nextUuid,       \* per kind of record: the next identifier uuidv4() issues
    conn            \* per connection: the request in progress, if any

vars == <<maisons, utilisateurs, paiements, transactions, uploads, adminLog,
          nextUuid, conn>>

----------------------------------------------------------------------------
(* Bounds of the model *)

MaxUuid == 2           \* identifiers uuidv4() issues for one kind of record
MaxLog == 2            \* lines appended to the admin log in one behaviour
MaxFiles == 1          \* files sent with one listing submission
NumConn == 2           \* connections that may have a request in progress
MaxRecords == 3        \* records created in all while the moderation is explored

(* Program constants *)

MAX_IMAGES == 5
ADMIN_PASSWORD == "Ben&4002"

Conn == 1..NumConn

----------------------------------------------------------------------------
(* JavaScript values as the handlers see them.  A string is a sequence of  *)
(* one-character strings; a missing property reads as undefined.           *)

Undefined == [t |-> "undefined"]
Null == [t |-> "null"]
NaN == [t |-> "NaN"]
Num(n) == [t |-> "num", n |-> n]
Str(s) == [t |-> "str", s |-> s]

\* ToBoolean: what `!v` and `v || d` test
Truthy(v) ==
    CASE v.t = "undefined" -> FALSE
      [] v.t = "null" -> FALSE
      [] v.t = "NaN" -> FALSE
      [] v.t = "num" -> v.n # 0
      [] v.t = "str" -> Len(v.s) > 0

\* v || d
OrElse(v, d) == IF Truthy(v) THEN v ELSE d

RECURSIVE TrimStart(_)
TrimStart(s) ==
    IF s # <<>> /\ Head(s) = " " THEN TrimStart(Tail(s)) ELSE s

RECURSIVE TrimEnd(_)
TrimEnd(s) ==
    IF s # <<>> /\ s[Len(s)] = " " THEN TrimEnd(SubSeq(s, 1, Len(s) - 1)) ELSE s

\* String.prototype.trim
Trim(s) == TrimEnd(TrimStart(s))

Digits == {"0", "1", "2", "3", "4", "5", "6", "7", "8", "9"}

DigitValue(c) ==
    CASE c = "0" -> 0 [] c = "1" -> 1 [] c = "2" -> 2 [] c = "3" -> 3
      [] c = "4" -> 4 [] c = "5" -> 5 [] c = "6" -> 6 [] c = "7" -> 7
      [] c = "8" -> 8 [] c = "9" -> 9

RECURSIVE DecimalValue(_, _)
DecimalValue(s, acc) ==
    IF s = <<>> THEN acc ELSE DecimalValue(Tail(s), 10 * acc + DigitValue(Head(s)))

AllDigits(s) == s # <<>> /\ \A i \in 1..Len(s) : s[i] \in Digits

\* Number(v) for the values a request body carries: numbers, and strings
\* made of blanks, a sign and decimal digits (anything else is NaN).
ToNumber(v) ==
    CASE v.t = "num" -> v
      [] v.t = "NaN" -> NaN
      [] v.t = "undefined" -> NaN
      [] v.t = "null" -> Num(0)
      [] v.t = "str" ->
            LET s == Trim(v.s) IN
            IF s = <<>> THEN Num(0)
            ELSE IF AllDigits(s) THEN Num(DecimalValue(s, 0))
            ELSE IF Head(s) = "-" /\ AllDigits(Tail(s)) THEN Num(0 - DecimalValue(Tail(s), 0))
            ELSE IF Head(s) = "+" /\ AllDigits(Tail(s)) THEN Num(DecimalValue(Tail(s), 0))
            ELSE NaN

\* isNaN(x) for x already a number
IsNaN(x) == x.t = "NaN"

\* JSON.stringify followed by JSON.parse of one property value: NaN is
\* written as null, an undefined property is dropped (and reads back as
\* undefined), everything else survives.
JsonValue(v) == IF v.t = "NaN" THEN Null ELSE v

----------------------------------------------------------------------------
(* Record store *)

\* readJson: the parsed content of the collection file
readJson(file) == file

\* what writeJson leaves in the file: the array as JSON.stringify writes it
writeJson(data) ==
    [i \in 1..Len(data) |->
        IF "montant" \in DOMAIN data[i]
        THEN [data[i] EXCEPT !.montant = JsonValue(@)]
        ELSE data[i]]

\* one line of logs/admin-actions.log: the action and the id it names
logAdmin(action, id) == [action |-> action, id |-> id]

\* Array.prototype.find(x => x.id === id), as the index of the element
\* found, 0 when there is none
RECURSIVE FindFrom(_, _, _)
FindFrom(list, id, i) ==
    IF i > Len(list) THEN 0
    ELSE IF list[i].id = id THEN i
    ELSE FindFrom(list, id, i + 1)

find(list, id) == FindFrom(list, id, 1)

\* Array.prototype.filter(x => x.id !== id)
filterOut(list, id) == SelectSeq(list, LAMBDA x : x.id # id)

\* `!id` on a request's id: 0 stands for a missing or empty id
NoId == 0
Missing(id) == id = NoId

Kinds == {"maison", "utilisateur", "paiement", "transaction", "image"}

\* uuidv4()
uuidv4(kind) == nextUuid[kind]

----------------------------------------------------------------------------
(* Middlewares *)

adminAuth(key) == ~(key = "" \/ key # ADMIN_PASSWORD)

validateMaisonFields(body) ==
    (IF ~Truthy(body.titre) \/ Len(Trim(body.titre.s)) < 3
        THEN <<"titre (min 3)">> ELSE <<>>)
    \o (IF ~Truthy(body.prix) \/ IsNaN(ToNumber(body.prix))
        THEN <<"prix (nombre)">> ELSE <<>>)
    \o (IF ~Truthy(body.ville) \/ Len(Trim(body.ville.s)) < 2
        THEN <<"ville">> ELSE <<>>)
    \o (IF ~Truthy(body.commune) \/ Len(Trim(body.commune.s)) < 1
        THEN <<"commune">> ELSE <<>>)
    \o (IF ~Truthy(body.quartier) \/ Len(Trim(body.quartier.s)) < 1
        THEN <<"quartier">> ELSE <<>>)

\* faulty variant: handlers that yield between their reads and writes
EventLoopAlwaysFree == TRUE

\* A synchronous handler runs to completion: no other handler starts while
\* one is between two of its statements.
EventLoopFree == \A c \in Conn : conn[c].pc # "validerPaiement"

Idle == [pc |-> "idle"]

----------------------------------------------------------------------------
(* Request inputs *)

Keys == {ADMIN_PASSWORD, "autre", ""}

\* the ids a request may name: none, one issued so far, one never issued
IdInputs(kind) == 0..nextUuid[kind]

\* ids a payment request names as its user and its listing (neither is
\* checked against a collection)
RefInputs == {NoId, 1}

BaseBody ==
    [titre |-> Str(<<" ", "a", "b", "c", " ">>), prix |-> Str(<<"1", "2">>),
     ville |-> Str(<<"k", "n">>), commune |-> Str(<<"g">>),
     quartier |-> Str(<<"q">>)]

\* request bodies: one that passes validation, and one for each way the
\* validation fails
Bodies ==
    { BaseBody,
      [BaseBody EXCEPT !.titre = Str(<<" ", "a", "b", " ">>)],
      [BaseBody EXCEPT !.prix = Str(<<"a", "b", "c">>)],
      [BaseBody EXCEPT !.ville = Str(<<"k", " ">>)],
      [BaseBody EXCEPT !.commune = Str(<<" ">>)],
      [BaseBody EXCEPT !.quartier = Undefined] }

Raisons == {Undefined, Str(<<"x">>), Str(<<"y">>)}

Montants == {Undefined, Num(0), Num(3), Str(<<"-", "2">>), Str(<<"x">>)}

Noms == {Undefined, Str(<<"n", " ">>)}

\* the reason given while the moderation is explored
ModerationRaisons == {Str(<<"x">>)}

----------------------------------------------------------------------------
(* Public routes - listings *)

\* faulty variant: the filter only drops the refused listings
onlyValidatedRefusedOnly(all) == SelectSeq(all, LAMBDA m : m.statut # "refuse")

\* all.filter(m => m.statut === "valide")
onlyValidated(all) == SelectSeq(all, LAMBDA m : m.statut = "valide")

\* GET /api/maisons: the response
getMaisons == [code |-> 200, body |-> onlyValidated(readJson(maisons))]

\* GET /api/maisons
GetMaisons ==
    /\ EventLoopFree
    /\ getMaisons.code = 200
    /\ UNCHANGED vars

\* GET /api/maisons/:id: the response
getMaison(id) ==
    LET all == readJson(maisons)
        i == find(all, id)
    IN  IF i = 0 THEN [code |-> 404] ELSE [code |-> 200, body |-> all[i]]

\* GET /api/maisons/:id
GetMaison(id) ==
    /\ EventLoopFree
    /\ getMaison(id).code \in {200, 404}
    /\ UNCHANGED vars

\* upload.array("images", MAX_IMAGES): multer stores each of the n files of
\* the request under a fresh name; req.files lists them
uploadArray(n) == [k \in 1..n |-> uuidv4("image") + k - 1]

\* faulty variant: the files of a refused submission are left in place
removeFilesNone(dir, files) == dir

\* (req.files || []).forEach(f => fs.removeSync(f.path))
removeFiles(dir, files) == dir \ {files[k] : k \in 1..Len(files)}

\* (req.files || []).slice(0, MAX_IMAGES).map(f => `/uploads/${f.filename}`)
imagesOf(files) ==
    SubSeq(files, 1, IF Len(files) < MAX_IMAGES THEN Len(files) ELSE MAX_IMAGES)

newMaison(id, body, images) ==
    [id |-> id,
     titre |-> Str(Trim(body.titre.s)),
     prix |-> ToNumber(body.prix),
     ville |-> body.ville,
     commune |-> body.commune,
     quartier |-> body.quartier,
     images |-> images,
     statut |-> "en_attente",
     refuseReason |-> Undefined]

\* POST /api/maisons on a request with this body and n files: the response,
\* and the listings file and the uploads directory as the route leaves them
postMaisons(body, n) ==
    LET files == uploadArray(n)
        stored == uploads \cup {files[k] : k \in 1..n}
        validation == validateMaisonFields(body)
        m == newMaison(uuidv4("maison"), body, imagesOf(files))
    IN  IF Len(validation) > 0
        THEN [code |-> 400, errors |-> validation, files |-> files,
              maisons |-> maisons, uploads |-> removeFiles(stored, files)]
        ELSE [code |-> 200, maison |-> m, files |-> files,
              maisons |-> writeJson(Append(readJson(maisons), m)),
              uploads |-> stored]

\* POST /api/maisons
PostMaisons(body, n) ==
    /\ EventLoopFree
    /\ n <= MAX_IMAGES
    /\ nextUuid["image"] + n - 1 <= MaxUuid
    /\ LET r == postMaisons(body, n)
       IN  /\ r.code = 200 => nextUuid["maison"] <= MaxUuid
           /\ maisons' = r.maisons
           /\ uploads' = r.uploads
           /\ nextUuid' = [nextUuid EXCEPT
                              !["image"] = @ + n,
                              !["maison"] = IF r.code = 200 THEN @ + 1 ELSE @]
    /\ UNCHANGED <<utilisateurs, paiements, transactions, adminLog, conn>>

----------------------------------------------------------------------------
(* Users and payments *)

\* POST /api/utilisateurs: the response and the users file
postUtilisateurs(nom, telephone) ==
    IF ~Truthy(nom) \/ ~Truthy(telephone)
    THEN [code |-> 400, utilisateurs |-> utilisateurs]
    ELSE LET user == [id |-> uuidv4("utilisateur"), nom |-> Str(Trim(nom.s)),
                      telephone |-> Str(Trim(telephone.s))]
         IN  [code |-> 200, utilisateur |-> user,
              utilisateurs |-> writeJson(Append(readJson(utilisateurs), user))]

\* POST /api/utilisateurs
PostUtilisateurs(nom, telephone) ==
    /\ EventLoopFree
    /\ LET r == postUtilisateurs(nom, telephone)
       IN  /\ r.code = 200 => nextUuid["utilisateur"] <= MaxUuid
           /\ utilisateurs' = r.utilisateurs
           /\ nextUuid' = [nextUuid EXCEPT
                              !["utilisateur"] = IF r.code = 200 THEN @ + 1 ELSE @]
    /\ UNCHANGED <<maisons, paiements, transactions, uploads, adminLog, conn>>

newPaiement(id, utilisateurId, maisonId, montant) ==
    [id |-> id,
     utilisateur |-> utilisateurId,
     maison |-> maisonId,
     montant |-> ToNumber(montant),
     statut |-> "en_attente",
     refuseReason |-> Undefined]

\* POST /api/paiements: the response and the payments file
postPaiements(utilisateurId, maisonId, montant) ==
    IF Missing(utilisateurId) \/ Missing(maisonId) \/ ~Truthy(montant)
    THEN [code |-> 400, paiements |-> paiements]
    ELSE LET p == newPaiement(uuidv4("paiement"), utilisateurId, maisonId, montant)
         IN  [code |-> 200, paiement |-> p,
              paiements |-> writeJson(Append(readJson(paiements), p))]

\* POST /api/paiements
PostPaiements(utilisateurId, maisonId, montant) ==
    /\ EventLoopFree
    /\ LET r == postPaiements(utilisateurId, maisonId, montant)
       IN  /\ r.code = 200 => nextUuid["paiement"] <= MaxUuid
           /\ paiements' = r.paiements
           /\ nextUuid' = [nextUuid EXCEPT
                              !["paiement"] = IF r.code = 200 THEN @ + 1 ELSE @]
    /\ UNCHANGED <<maisons, utilisateurs, transactions, uploads, adminLog, conn>>

\* GET /api/paiements/:id: the response
getPaiement(id) ==
    LET list == readJson(paiements)
        i == find(list, id)
    IN  IF i = 0 THEN [code |-> 404] ELSE [code |-> 200, body |-> list[i]]

\* GET /api/paiements/:id
GetPaiement(id) ==
    /\ EventLoopFree
    /\ getPaiement(id).code \in {200, 404}
    /\ UNCHANGED vars

----------------------------------------------------------------------------
(* Admin routes - listings *)

\* faulty variant: a route registered without the adminAuth middleware
RefusedNoAuth(key, id) == IF Missing(id) THEN 400 ELSE 0

\* what an admin route answers before its handler body runs, if anything:
\* 403 from adminAuth, 400 from the `!id` test, 0 when the body runs
Refused(key, id) ==
    IF ~adminAuth(key) THEN 403 ELSE IF Missing(id) THEN 400 ELSE 0

\* the outcome of an admin route that changes nothing
NoChange(code) ==
    [code |-> code, maisons |-> maisons, utilisateurs |-> utilisateurs,
     paiements |-> paiements, uploads |-> uploads, adminLog |-> adminLog]

\* GET /api/admin/maisons: the response
adminGetMaisons(key) ==
    IF ~adminAuth(key) THEN [code |-> 403]
    ELSE [code |-> 200, body |-> readJson(maisons)]

\* GET /api/admin/maisons
AdminGetMaisons(key) ==
    /\ EventLoopFree
    /\ adminGetMaisons(key).code \in {200, 403}
    /\ UNCHANGED vars

\* POST /api/admin/validerMaison: the response, the listings file and the log
validerMaison(key, id) ==
    LET list == readJson(maisons)
        i == find(list, id)
    IN  IF Refused(key, id) # 0 THEN NoChange(Refused(key, id))
        ELSE IF i = 0 THEN NoChange(404)
        ELSE LET m == [list[i] EXCEPT !.statut = "valide"]
             IN  [NoChange(200) EXCEPT
                     !.maisons = writeJson([list EXCEPT ![i] = m]),
                     !.adminLog = Append(adminLog, logAdmin("VALIDER_MAISON", id))]

\* POST /api/admin/validerMaison
ValiderMaison(key, id) ==
    /\ EventLoopFree
    /\ LET r == validerMaison(key, id)
       IN  /\ Len(r.adminLog) <= MaxLog
           /\ maisons' = r.maisons
           /\ adminLog' = r.adminLog
    /\ UNCHANGED <<utilisateurs, paiements, transactions, uploads, nextUuid, conn>>

\* faulty variant: a reason already recorded is kept
refuserMaisonKeepReason(key, id, raison) ==
    LET list == readJson(maisons)
        i == find(list, id)
    IN  IF Refused(key, id) # 0 THEN NoChange(Refused(key, id))
        ELSE IF i = 0 THEN NoChange(404)
        ELSE LET m == [list[i] EXCEPT !.statut = "refuse",
                                      !.refuseReason = OrElse(@, OrElse(raison, Str(<<>>)))]
             IN  [NoChange(200) EXCEPT
                     !.maisons = writeJson([list EXCEPT ![i] = m]),
                     !.adminLog = Append(adminLog, logAdmin("REFUSER_MAISON", id))]

\* POST /api/admin/refuserMaison: the response, the listings file and the log
refuserMaison(key, id, raison) ==
    LET list == readJson(maisons)
        i == find(list, id)
    IN  IF Refused(key, id) # 0 THEN NoChange(Refused(key, id))
        ELSE IF i = 0 THEN NoChange(404)
        ELSE LET m == [list[i] EXCEPT !.statut = "refuse",
                                      !.refuseReason = OrElse(raison, Str(<<>>))]
             IN  [NoChange(200) EXCEPT
                     !.maisons = writeJson([list EXCEPT ![i] = m]),
                     !.adminLog = Append(adminLog, logAdmin("REFUSER_MAISON", id))]

\* POST /api/admin/refuserMaison
RefuserMaison(key, id, raison) ==
    /\ EventLoopFree
    /\ LET r == refuserMaison(key, id, raison)
       IN  /\ Len(r.adminLog) <= MaxLog
           /\ maisons' = r.maisons
           /\ adminLog' = r.adminLog
    /\ UNCHANGED <<utilisateurs, paiements, transactions, uploads, nextUuid, conn>>

\* faulty variant: the images of a deleted listing are left in place
removeImagesNone(dir, images) == dir

\* m.images.forEach(imgPath => { if (fs.existsSync(filePath)) fs.removeSync(filePath) })
\* path.join(BASE_DIR, "/uploads/<name>") is the file <name> of the uploads directory
removeImages(dir, images) == dir \ {images[k] : k \in 1..Len(images)}

\* POST /api/admin/supprimerMaison: the response, the listings file, the
\* uploads directory and the log
supprimerMaison(key, id) ==
    LET list == readJson(maisons)
        i == find(list, id)
    IN  IF Refused(key, id) # 0 THEN NoChange(Refused(key, id))
        ELSE IF i = 0 THEN NoChange(404)
        ELSE [NoChange(200) EXCEPT
                 !.uploads = removeImages(uploads, list[i].images),
                 !.maisons = writeJson(filterOut(list, id)),
                 !.adminLog = Append(adminLog, logAdmin("SUPPRIMER_MAISON", id))]

\* POST /api/admin/supprimerMaison
SupprimerMaison(key, id) ==
    /\ EventLoopFree
    /\ LET r == supprimerMaison(key, id)
       IN  /\ Len(r.adminLog) <= MaxLog
           /\ maisons' = r.maisons
           /\ uploads' = r.uploads
           /\ adminLog' = r.adminLog
    /\ UNCHANGED <<utilisateurs, paiements, transactions, nextUuid, conn>>

----------------------------------------------------------------------------
(* Admin routes - payments *)

\* GET /api/admin/paiements: the response
adminGetPaiements(key) ==
    IF ~adminAuth(key) THEN [code |-> 403]
    ELSE [code |-> 200, body |-> readJson(paiements)]

\* GET /api/admin/paiements
AdminGetPaiements(key) ==
    /\ EventLoopFree
    /\ adminGetPaiements(key).code \in {200, 403}
    /\ UNCHANGED vars

\* faulty variant: an amount that is not a number is entered as 0
newTransactionOrZero(id, p) ==
    [id |-> id, paiementId |-> p.id, montant |-> OrElse(p.montant, Num(0))]

\* { id: uuidv4(), paiementId: p.id, montant: p.montant, date }
newTransaction(id, p) == [id |-> id, paiementId |-> p.id, montant |-> p.montant]

\* POST /api/admin/validerPaiement up to its first write: the response if
\* the handler returns early (0 if it goes on), the payment found and
\* marked, and the two arrays the handler is about to write
validerPaiement(key, paiementId) ==
    LET list == readJson(paiements)
        i == find(list, paiementId)
    IN  IF Refused(key, paiementId) # 0 THEN [code |-> Refused(key, paiementId)]
        ELSE IF i = 0 THEN [code |-> 404]
        ELSE LET p == [list[i] EXCEPT !.statut = "valide"]
             IN  [code |-> 0, p |-> p,
                  paiements |-> [list EXCEPT ![i] = p],
                  transactions |-> Append(readJson(transactions),
                                          newTransaction(uuidv4("transaction"), p))]

\* POST /api/admin/validerPaiement, up to and including
\* writeJson(PAIEMENTS_FILE, paiements)
ValiderPaiementBegin(c, key, paiementId) ==
    /\ conn[c].pc = "idle"
    /\ EventLoopFree
    /\ LET r == validerPaiement(key, paiementId)
       IN  IF r.code # 0
           THEN UNCHANGED <<paiements, nextUuid, conn>>
           ELSE /\ Len(adminLog) < MaxLog
                /\ nextUuid["transaction"] <= MaxUuid
                /\ paiements' = writeJson(r.paiements)
                /\ conn' = [conn EXCEPT ![c] =
                               [pc |-> "validerPaiement", p |-> r.p,
                                transactions |-> r.transactions]]
                /\ nextUuid' = [nextUuid EXCEPT !["transaction"] = @ + 1]
    /\ UNCHANGED <<maisons, utilisateurs, transactions, uploads, adminLog>>

\* POST /api/admin/validerPaiement, from writeJson(TRANSACTIONS_FILE,
\* transactions) to the response
ValiderPaiementEnd(c) ==
    /\ conn[c].pc = "validerPaiement"
    /\ transactions' = writeJson(conn[c].transactions)
    /\ adminLog' = Append(adminLog, logAdmin("VALIDER_PAIEMENT", conn[c].p.id))
    /\ conn' = [conn EXCEPT ![c] = Idle]
    /\ UNCHANGED <<maisons, utilisateurs, paiements, uploads, nextUuid>>

\* POST /api/admin/refuserPaiement: the response, the payments file and the log
refuserPaiement(key, paiementId, raison) ==
    LET list == readJson(paiements)
        i == find(list, paiementId)
    IN  IF Refused(key, paiementId) # 0 THEN NoChange(Refused(key, paiementId))
        ELSE IF i = 0 THEN NoChange(404)
        ELSE LET p == [list[i] EXCEPT !.statut = "refuse",
                                      !.refuseReason = OrElse(raison, Str(<<>>))]
             IN  [NoChange(200) EXCEPT
                     !.paiements = writeJson([list EXCEPT ![i] = p]),
                     !.adminLog = Append(adminLog,
                                         logAdmin("REFUSER_PAIEMENT", paiementId))]

\* POST /api/admin/refuserPaiement
RefuserPaiement(key, paiementId, raison) ==
    /\ EventLoopFree
    /\ LET r == refuserPaiement(key, paiementId, raison)
       IN  /\ Len(r.adminLog) <= MaxLog
           /\ paiements' = r.paiements
           /\ adminLog' = r.adminLog
    /\ UNCHANGED <<maisons, utilisateurs, transactions, uploads, nextUuid, conn>>

----------------------------------------------------------------------------
(* Admin routes - users and stats *)

\* GET /api/admin/utilisateurs: the response
adminGetUtilisateurs(key) ==
    IF ~adminAuth(key) THEN [code |-> 403]
    ELSE [code |-> 200, body |-> readJson(utilisateurs)]

\* GET /api/admin/utilisateurs
AdminGetUtilisateurs(key) ==
    /\ EventLoopFree
    /\ adminGetUtilisateurs(key).code \in {200, 403}
    /\ UNCHANGED vars

\* POST /api/admin/supprimerUtilisateur: the response, the users file and the log
supprimerUtilisateur(key, id) ==
    IF Refused(key, id) # 0 THEN NoChange(Refused(key, id))
    ELSE [NoChange(200) EXCEPT
             !.utilisateurs = writeJson(filterOut(readJson(utilisateurs), id)),
             !.adminLog = Append(adminLog, logAdmin("SUPPRIMER_UTILISATEUR", id))]

\* POST /api/admin/supprimerUtilisateur
SupprimerUtilisateur(key, id) ==
    /\ EventLoopFree
    /\ LET r == supprimerUtilisateur(key, id)
       IN  /\ Len(r.adminLog) <= MaxLog
           /\ utilisateurs' = r.utilisateurs
           /\ adminLog' = r.adminLog
    /\ UNCHANGED <<maisons, paiements, transactions, uploads, nextUuid, conn>>

\* (t.montant || 0) as a number
montantOrZero(t) == IF Truthy(t.montant) THEN t.montant.n ELSE 0

\* transactions.reduce((s, t) => s + (t.montant || 0), 0)
RECURSIVE reduceMontants(_, _, _)
reduceMontants(list, i, s) ==
    IF i > Len(list) THEN s
    ELSE reduceMontants(list, i + 1, s + montantOrZero(list[i]))

\* faulty variant: the fold misses the first transaction
revenusTotauxSkipFirst(list) == reduceMontants(list, 2, 0)

revenusTotaux(list) == reduceMontants(list, 1, 0)

\* GET /api/admin/stats: the response
adminStats(key) ==
    IF ~adminAuth(key) THEN [code |-> 403]
    ELSE [code |-> 200,
          totalMaisons |-> Len(readJson(maisons)),
          totalUsers |-> Len(readJson(utilisateurs)),
          totalPaiements |-> Len(readJson(paiements)),
          revenusTotaux |-> revenusTotaux(readJson(transactions))]

\* GET /api/admin/stats
AdminStats(key) ==
    /\ EventLoopFree
    /\ adminStats(key).code \in {200, 403}
    /\ UNCHANGED vars

----------------------------------------------------------------------------
(* Storage failures *)

(* During one request, one call to the file system may fail: a read of a   *)
(* collection file (readJson catches the error and returns []), a write of *)
(* a collection file (writeJsonSync throws, the file keeps its content), or *)
(* the append to the admin log (appendFileSync throws).  No admin handler   *)
(* catches an exception: express passes it to the global error handler,     *)
(* which answers 500.  The admin routes are given again below with the      *)
(* failing call as a parameter; each is one step, as seen from inside the   *)
(* server process.                                                          *)

NoFault == [op |-> "none", file |-> "none"]
ReadFault(name) == [op |-> "read", file |-> name]
WriteFault(name) == [op |-> "write", file |-> name]
LogFault == [op |-> "log", file |-> "admin-actions.log"]

\* the calls that may fail in a handler that reads and writes these files
StoreFaults(names) ==
    {ReadFault(f) : f \in names} \cup {WriteFault(f) : f \in names}

\* ... and appends to the log
Faults(names) == StoreFaults(names) \cup {LogFault}

\* an admin request and what fails while it is served: adminAuth answers
\* before any call to the file system, so a call only fails for the
\* administrator; a request without the password comes without any key
AdminRequests(faults) ==
    {[io |-> NoFault, key |-> key] : key \in {ADMIN_PASSWORD, ""}}
        \cup {[io |-> io, key |-> ADMIN_PASSWORD] : io \in faults}

\* readJson: try { return fs.readJsonSync(filePath) } catch (err) { return [] }
readJsonUnder(io, name, file) ==
    IF io = ReadFault(name) THEN <<>> ELSE readJson(file)

\* writeJson throws
writeFails(io, name) == io = WriteFault(name)

\* logAdmin throws
logFails(io) == io = LogFault

\* the outcome of a route that leaves every file as it is
Outcome(code) ==
    [code |-> code, maisons |-> maisons, utilisateurs |-> utilisateurs,
     paiements |-> paiements, transactions |-> transactions,
     uploads |-> uploads, adminLog |-> adminLog, uuids |-> 0]

\* app.use((err, req, res, next) => ... res.status(500)): the exception
\* leaves the files as the handler had left them when it was thrown
Thrown(sofar) == [sofar EXCEPT !.code = 500]

\* faulty variant: the `!m` test is missing
validerMaisonUnderNoFindTest(io, key, id) ==
    LET list == readJsonUnder(io, "maisons", maisons)
    IN  IF Refused(key, id) # 0 THEN Outcome(Refused(key, id))
        ELSE IF writeFails(io, "maisons") THEN Thrown(Outcome(0))
        ELSE LET written ==
                    [Outcome(0) EXCEPT
                        !.maisons = writeJson(
                            [k \in 1..Len(list) |->
                                IF list[k].id = id
                                THEN [list[k] EXCEPT !.statut = "valide"]
                                ELSE list[k]])]
             IN  IF logFails(io) THEN Thrown(written)
                 ELSE [written EXCEPT
                          !.code = 200,
                          !.adminLog = Append(adminLog, logAdmin("VALIDER_MAISON", id))]

\* POST /api/admin/validerMaison
validerMaisonUnder(io, key, id) ==
    LET list == readJsonUnder(io, "maisons", maisons)
        i == find(list, id)
    IN  IF Refused(key, id) # 0 THEN Outcome(Refused(key, id))
        ELSE IF i = 0 THEN Outcome(404)
        ELSE IF writeFails(io, "maisons") THEN Thrown(Outcome(0))
        ELSE LET m == [list[i] EXCEPT !.statut = "valide"]
                 written == [Outcome(0) EXCEPT
                                !.maisons = writeJson([list EXCEPT ![i] = m])]
             IN  IF logFails(io) THEN Thrown(written)
                 ELSE [written EXCEPT
                          !.code = 200,
                          !.adminLog = Append(adminLog, logAdmin("VALIDER_MAISON", id))]

\* POST /api/admin/refuserMaison
refuserMaisonUnder(io, key, id, raison) ==
    LET list == readJsonUnder(io, "maisons", maisons)
        i == find(list, id)
    IN  IF Refused(key, id) # 0 THEN Outcome(Refused(key, id))
        ELSE IF i = 0 THEN Outcome(404)
        ELSE IF writeFails(io, "maisons") THEN Thrown(Outcome(0))
        ELSE LET m == [list[i] EXCEPT !.statut = "refuse",
                                      !.refuseReason = OrElse(raison, Str(<<>>))]
                 written == [Outcome(0) EXCEPT
                                !.maisons = writeJson([list EXCEPT ![i] = m])]
             IN  IF logFails(io) THEN Thrown(written)
                 ELSE [written EXCEPT
                          !.code = 200,
                          !.adminLog = Append(adminLog, logAdmin("REFUSER_MAISON", id))]

\* faulty variant: the payments of the deleted listing are deleted with it
supprimerMaisonUnderCascade(io, key, id) ==
    LET list == readJsonUnder(io, "maisons", maisons)
        i == find(list, id)
    IN  IF Refused(key, id) # 0 THEN Outcome(Refused(key, id))
        ELSE IF i = 0 THEN Outcome(404)
        ELSE LET cleaned == [Outcome(0) EXCEPT
                                !.uploads = removeImages(uploads, list[i].images)]
                 written == [cleaned EXCEPT
                                !.maisons = writeJson(filterOut(list, id)),
                                !.paiements = SelectSeq(paiements,
                                                        LAMBDA p : p.maison # id)]
             IN  IF writeFails(io, "maisons") THEN Thrown(cleaned)
                 ELSE IF logFails(io) THEN Thrown(written)
                 ELSE [written EXCEPT
                          !.code = 200,
                          !.adminLog = Append(adminLog, logAdmin("SUPPRIMER_MAISON", id))]

\* POST /api/admin/supprimerMaison: the images are removed before the
\* listings file is written
supprimerMaisonUnder(io, key, id) ==
    LET list == readJsonUnder(io, "maisons", maisons)
        i == find(list, id)
    IN  IF Refused(key, id) # 0 THEN Outcome(Refused(key, id))
        ELSE IF i = 0 THEN Outcome(404)
        ELSE LET cleaned == [Outcome(0) EXCEPT
                                !.uploads = removeImages(uploads, list[i].images)]
                 written == [cleaned EXCEPT
                                !.maisons = writeJson(filterOut(list, id))]
             IN  IF writeFails(io, "maisons") THEN Thrown(cleaned)
                 ELSE IF logFails(io) THEN Thrown(written)
                 ELSE [written EXCEPT
                          !.code = 200,
                          !.adminLog = Append(adminLog, logAdmin("SUPPRIMER_MAISON", id))]

\* POST /api/admin/validerPaiement: paiements.json is written first,
\* transactions.json second.  The identifier uuidv4() yields counts as
\* issued once it is stored.
validerPaiementUnder(io, key, paiementId) ==
    LET list == readJsonUnder(io, "paiements", paiements)
        i == find(list, paiementId)
    IN  IF Refused(key, paiementId) # 0 THEN Outcome(Refused(key, paiementId))
        ELSE IF i = 0 THEN Outcome(404)
        ELSE LET p == [list[i] EXCEPT !.statut = "valide"]
                 txs == Append(readJsonUnder(io, "transactions", transactions),
                               newTransaction(uuidv4("transaction"), p))
                 first == [Outcome(0) EXCEPT
                              !.paiements = writeJson([list EXCEPT ![i] = p])]
                 second == [first EXCEPT !.transactions = writeJson(txs),
                                         !.uuids = 1]
             IN  IF writeFails(io, "paiements") THEN Thrown(Outcome(0))
                 ELSE IF writeFails(io, "transactions") THEN Thrown(first)
                 ELSE IF logFails(io) THEN Thrown(second)
                 ELSE [second EXCEPT
                          !.code = 200,
                          !.adminLog = Append(adminLog,
                                              logAdmin("VALIDER_PAIEMENT", paiementId))]

\* faulty variant: the log line is appended before the file is written
refuserPaiementUnderLogFirst(io, key, paiementId, raison) ==
    LET list == readJsonUnder(io, "paiements", paiements)
        i == find(list, paiementId)
    IN  IF Refused(key, paiementId) # 0 THEN Outcome(Refused(key, paiementId))
        ELSE IF i = 0 THEN Outcome(404)
        ELSE IF logFails(io) THEN Thrown(Outcome(0))
        ELSE LET p == [list[i] EXCEPT !.statut = "refuse",
                                      !.refuseReason = OrElse(raison, Str(<<>>))]
                 logged == [Outcome(0) EXCEPT
                               !.adminLog = Append(adminLog,
                                                   logAdmin("REFUSER_PAIEMENT", paiementId))]
             IN  IF writeFails(io, "paiements") THEN Thrown(logged)
                 ELSE [logged EXCEPT
                          !.code = 200,
                          !.paiements = writeJson([list EXCEPT ![i] = p])]

\* POST /api/admin/refuserPaiement
refuserPaiementUnder(io, key, paiementId, raison) ==
    LET list == readJsonUnder(io, "paiements", paiements)
        i == find(list, paiementId)
    IN  IF Refused(key, paiementId) # 0 THEN Outcome(Refused(key, paiementId))
        ELSE IF i = 0 THEN Outcome(404)
        ELSE IF writeFails(io, "paiements") THEN Thrown(Outcome(0))
        ELSE LET p == [list[i] EXCEPT !.statut = "refuse",
                                      !.refuseReason = OrElse(raison, Str(<<>>))]
                 written == [Outcome(0) EXCEPT
                                !.paiements = writeJson([list EXCEPT ![i] = p])]
             IN  IF logFails(io) THEN Thrown(written)
                 ELSE [written EXCEPT
                          !.code = 200,
                          !.adminLog = Append(adminLog,
                                              logAdmin("REFUSER_PAIEMENT", paiementId))]

\* POST /api/admin/supprimerUtilisateur
supprimerUtilisateurUnder(io, key, id) ==
    IF Refused(key, id) # 0 THEN Outcome(Refused(key, id))
    ELSE IF writeFails(io, "utilisateurs") THEN Thrown(Outcome(0))
    ELSE LET written ==
                [Outcome(0) EXCEPT
                    !.utilisateurs =
                        writeJson(filterOut(readJsonUnder(io, "utilisateurs",
                                                          utilisateurs), id))]
         IN  IF logFails(io) THEN Thrown(written)
             ELSE [written EXCEPT
                      !.code = 200,
                      !.adminLog = Append(adminLog, logAdmin("SUPPRIMER_UTILISATEUR", id))]

\* the files as a route leaves them
Leave(r) ==
    /\ EventLoopFree
    /\ Len(r.adminLog) <= MaxLog
    /\ nextUuid["transaction"] + r.uuids - 1 <= MaxUuid
    /\ maisons' = r.maisons
    /\ utilisateurs' = r.utilisateurs
    /\ paiements' = r.paiements
    /\ transactions' = r.transactions
    /\ uploads' = r.uploads
    /\ adminLog' = r.adminLog
    /\ nextUuid' = [nextUuid EXCEPT !["transaction"] = @ + r.uuids]
    /\ UNCHANGED conn

ValiderMaisonUnder(io, key, id) == Leave(validerMaisonUnder(io, key, id))

RefuserMaisonUnder(io, key, id, raison) == Leave(refuserMaisonUnder(io, key, id, raison))

SupprimerMaisonUnder(io, key, id) == Leave(supprimerMaisonUnder(io, key, id))

ValiderPaiementUnder(io, key, paiementId) == Leave(validerPaiementUnder(io, key, paiementId))

RefuserPaiementUnder(io, key, paiementId, raison) ==
    Leave(refuserPaiementUnder(io, key, paiementId, raison))

SupprimerUtilisateurUnder(io, key, id) == Leave(supprimerUtilisateurUnder(io, key, id))

----------------------------------------------------------------------------
(* The server *)

\* ensureJsonFile(..., []) on the four collections, empty directories,
\* no request received yet
Init ==
    /\ maisons = <<>>
    /\ utilisateurs = <<>>
    /\ paiements = <<>>
    /\ transactions = <<>>
    /\ uploads = {}
    /\ adminLog = <<>>
    /\ nextUuid = [k \in Kinds |-> 1]
    /\ conn = [c \in Conn |-> Idle]

\* The listing routes read and write maisons.json, the uploads directory and
\* the log; the payment routes and the stats read and write paiements.json,
\* transactions.json and the log; the user routes utilisateurs.json and the
\* log.  Each group is explored on its own as well as together.

NextMaisons ==
    \/ GetMaisons
    \/ \E id \in IdInputs("maison") : GetMaison(id)
    \/ \E body \in Bodies, n \in 0..MaxFiles : PostMaisons(body, n)
    \/ \E key \in Keys : AdminGetMaisons(key)
    \/ \E key \in Keys, id \in IdInputs("maison") : ValiderMaison(key, id)
    \/ \E key \in Keys, id \in IdInputs("maison"), raison \in Raisons :
          RefuserMaison(key, id, raison)
    \/ \E key \in Keys, id \in IdInputs("maison") : SupprimerMaison(key, id)

NextPaiements ==
    \/ \E u \in RefInputs, m \in RefInputs, montant \in Montants : PostPaiements(u, m, montant)
    \/ \E id \in IdInputs("paiement") : GetPaiement(id)
    \/ \E key \in Keys : AdminGetPaiements(key)
    \/ \E c \in Conn, key \in Keys, id \in IdInputs("paiement") :
          ValiderPaiementBegin(c, key, id)
    \/ \E c \in Conn : ValiderPaiementEnd(c)
    \/ \E key \in Keys, id \in IdInputs("paiement"), raison \in Raisons :
          RefuserPaiement(key, id, raison)
    \/ \E key \in Keys : AdminStats(key)

NextUtilisateurs ==
    \/ \E nom \in Noms, telephone \in Noms : PostUtilisateurs(nom, telephone)
    \/ \E key \in Keys : AdminGetUtilisateurs(key)
    \/ \E key \in Keys, id \in IdInputs("utilisateur") : SupprimerUtilisateur(key, id)

Next == NextMaisons \/ NextPaiements \/ NextUtilisateurs

Spec == Init /\ [][Next]_vars

SpecMaisons == Init /\ [][NextMaisons]_vars

SpecPaiements == Init /\ [][NextPaiements]_vars

\* The moderation as a whole: every admin route on every collection, each
\* with a read or a write of a collection file that may fail, over a few
\* records created by the public routes.

\* listings, users and payments created so far
RecordsCreated ==
    (nextUuid["maison"] - 1) + (nextUuid["utilisateur"] - 1) + (nextUuid["paiement"] - 1)

NextModeration ==
    \/ \E n \in {0, MaxFiles} :
          RecordsCreated < MaxRecords /\ PostMaisons(BaseBody, n)
    \/ RecordsCreated < MaxRecords
          /\ PostUtilisateurs(Str(<<"n", " ">>), Str(<<"n", " ">>))
    \/ \E u \in RefInputs, m \in RefInputs :
          RecordsCreated < MaxRecords /\ PostPaiements(u, m, Num(3))
    \/ \E key \in {ADMIN_PASSWORD, ""} : AdminGetMaisons(key)
    \/ \E key \in {ADMIN_PASSWORD, ""} : AdminGetPaiements(key)
    \/ \E key \in {ADMIN_PASSWORD, ""} : AdminGetUtilisateurs(key)
    \/ \E key \in {ADMIN_PASSWORD, ""} : AdminStats(key)
    \/ \E req \in AdminRequests(StoreFaults({"maisons"})), id \in IdInputs("maison") :
          ValiderMaisonUnder(req.io, req.key, id)
    \/ \E req \in AdminRequests(StoreFaults({"maisons"})), id \in IdInputs("maison"),
          raison \in ModerationRaisons :
          RefuserMaisonUnder(req.io, req.key, id, raison)
    \/ \E req \in AdminRequests(StoreFaults({"maisons"})), id \in IdInputs("maison") :
          SupprimerMaisonUnder(req.io, req.key, id)
    \/ \E req \in AdminRequests(StoreFaults({"paiements", "transactions"})),
          id \in IdInputs("paiement") :
          ValiderPaiementUnder(req.io, req.key, id)
    \/ \E req \in AdminRequests(StoreFaults({"paiements"})),
          id \in IdInputs("paiement"), raison \in ModerationRaisons :
          RefuserPaiementUnder(req.io, req.key, id, raison)
    \/ \E req \in AdminRequests(StoreFaults({"utilisateurs"})),
          id \in IdInputs("utilisateur") :
          SupprimerUtilisateurUnder(req.io, req.key, id)

SpecModeration == Init /\ [][NextModeration]_vars

\* ... and with the append to the admin log failing as well
NextFaults ==
    \/ NextModeration
    \/ \E id \in IdInputs("maison") : ValiderMaisonUnder(LogFault, ADMIN_PASSWORD, id)
    \/ \E id \in IdInputs("maison"), raison \in ModerationRaisons :
          RefuserMaisonUnder(LogFault, ADMIN_PASSWORD, id, raison)
    \/ \E id \in IdInputs("maison") : SupprimerMaisonUnder(LogFault, ADMIN_PASSWORD, id)
    \/ \E id \in IdInputs("paiement") : ValiderPaiementUnder(LogFault, ADMIN_PASSWORD, id)
    \/ \E id \in IdInputs("paiement"), raison \in ModerationRaisons :
          RefuserPaiementUnder(LogFault, ADMIN_PASSWORD, id, raison)
    \/ \E id \in IdInputs("utilisateur") :
          SupprimerUtilisateurUnder(LogFault, ADMIN_PASSWORD, id)

SpecFaults == Init /\ [][NextFaults]_vars

\* The listing submissions with every kind of body: the ones the validation
\* refuses, and the ones it lets through, a price below zero among them;
\* a listing submitted is then validated or deleted.

PrixBodies == {BaseBody, [BaseBody EXCEPT !.prix = Str(<<"-", "5">>)]}

NextSubmissions ==
    \/ \E body \in Bodies \cup PrixBodies, n \in 0..MaxFiles : PostMaisons(body, n)
    \/ GetMaisons
    \/ \E id \in IdInputs("maison") : GetMaison(id)
    \/ \E key \in Keys : AdminGetMaisons(key)
    \/ \E key \in Keys, id \in IdInputs("maison") : ValiderMaison(key, id)
    \/ \E key \in Keys, id \in IdInputs("maison") : SupprimerMaison(key, id)

SpecSubmissions == Init /\ [][NextSubmissions]_vars

----------------------------------------------------------------------------
(* Properties *)

Indices(list) == 1..Len(list)

IdsOf(list) == {list[i].id : i \in Indices(list)}

AllIdle == \A c \in Conn : conn[c].pc = "idle"

\* the lines of the log with this action and id
LogLines(action, id) ==
    {k \in Indices(adminLog) : adminLog[k] = logAdmin(action, id)}

\* C1: whatever listings have been created, validated, refused and deleted,
\* the public listing query answers only listings whose status is "valide".
C1_PublicOnlyValide ==
    \A j \in Indices(getMaisons.body) : getMaisons.body[j].statut = "valide"

\* a validated listing is served while another one, not validated, is stored
C1_Witness ==
    /\ Len(getMaisons.body) = 1
    /\ \E i \in Indices(maisons) : maisons[i].statut # "valide"

\* C2: a transaction carries the amount of its payment, and no payment id
\* has more than one transaction, however often the payment is approved.
C2_OneTransactionPerPaiement ==
    /\ \A i \in Indices(transactions) :
          \E k \in Indices(paiements) :
             /\ paiements[k].id = transactions[i].paiementId
             /\ paiements[k].montant = transactions[i].montant
    /\ \A i, j \in Indices(transactions) :
          transactions[i].paiementId = transactions[j].paiementId => i = j

\* C3: in every state of the two files, a payment marked "valide" has a
\* transaction, and a transaction belongs to a payment that is "valide" or
\* (later) "refuse".
C3_ApprovedWithTransaction ==
    /\ \A k \in Indices(paiements) :
          paiements[k].statut = "valide" =>
             \E i \in Indices(transactions) :
                transactions[i].paiementId = paiements[k].id
    /\ \A i \in Indices(transactions) :
          \E k \in Indices(paiements) :
             /\ paiements[k].id = transactions[i].paiementId
             /\ paiements[k].statut \in {"valide", "refuse"}

\* C4: no update of the payments or transactions file is lost.  Once every
\* handler has returned, each payment has as many transactions as approvals
\* of it were answered with success, and carries the status its last
\* successful approve or reject gave it; so two approvals of two different
\* payments leave both approved, each with its own transaction.
C4_LastAbout(id) ==
    LET about == {k \in Indices(adminLog) :
                     /\ adminLog[k].id = id
                     /\ adminLog[k].action \in {"VALIDER_PAIEMENT", "REFUSER_PAIEMENT"}}
    IN  IF about = {} THEN 0 ELSE CHOOSE k \in about : \A l \in about : l <= k

C4_NoLostUpdate ==
    AllIdle =>
       \A k \in Indices(paiements) :
          LET id == paiements[k].id
              last == C4_LastAbout(id)
          IN  /\ Cardinality({i \in Indices(transactions) :
                                 transactions[i].paiementId = id})
                   = Cardinality(LogLines("VALIDER_PAIEMENT", id))
              /\ last = 0 => paiements[k].statut = "en_attente"
              /\ last # 0 /\ adminLog[last].action = "VALIDER_PAIEMENT"
                    => paiements[k].statut = "valide"
              /\ last # 0 /\ adminLog[last].action = "REFUSER_PAIEMENT"
                    => paiements[k].statut = "refuse"

\* two different payments have been approved, one after the other
C4_Witness ==
    /\ AllIdle
    /\ \E k, l \in Indices(paiements) :
          /\ paiements[k].id # paiements[l].id
          /\ paiements[k].statut = "valide" /\ paiements[l].statut = "valide"
          /\ LogLines("VALIDER_PAIEMENT", paiements[k].id) # {}
          /\ LogLines("VALIDER_PAIEMENT", paiements[l].id) # {}

\* the amount of a transaction as a number, a transaction without a
\* numeric amount counting for nothing
C5_Amount(t) == IF t.montant.t = "num" THEN t.montant.n ELSE 0

RECURSIVE C5_SumOver(_)
C5_SumOver(S) ==
    IF S = {} THEN 0
    ELSE LET i == CHOOSE i \in S : TRUE
         IN  C5_Amount(transactions[i]) + C5_SumOver(S \ {i})

\* C5: whatever payments have been created, approved and refused, the stats
\* route answers an admin with revenusTotaux equal to the sum of the amounts
\* of the transactions stored.
C5_RevenusTotaux ==
    /\ adminStats(ADMIN_PASSWORD).code = 200
    /\ adminStats(ADMIN_PASSWORD).revenusTotaux = C5_SumOver(Indices(transactions))

\* a payment was approved, then refused: its transaction still counts
C5_Witness ==
    /\ adminStats(ADMIN_PASSWORD).revenusTotaux # 0
    /\ \E i \in Indices(transactions), k \in Indices(paiements) :
          /\ paiements[k].id = transactions[i].paiementId
          /\ paiements[k].statut = "refuse"

\* C6: a listing is created "en_attente", and its status only ever changes
\* from "en_attente" to "valide", from "en_attente" to "refuse" or from
\* "valide" to "refuse".
C6_Allowed ==
    {<<"en_attente", "valide">>, <<"en_attente", "refuse">>, <<"valide", "refuse">>}

C6_StatusMachine ==
    [][\A j \in Indices(maisons') :
          LET i == find(maisons, maisons'[j].id)
          IN  IF i = 0
              THEN maisons'[j].statut = "en_attente"
              ELSE \/ maisons'[j].statut = maisons[i].statut
                   \/ <<maisons[i].statut, maisons'[j].statut>> \in C6_Allowed]_vars

\* C7: a listing or a payment has a refuseReason only while its status is
\* "refuse".
C7_ReasonOnlyWhenRefused ==
    /\ \A i \in Indices(maisons) :
          maisons[i].refuseReason # Undefined => maisons[i].statut = "refuse"
    /\ \A k \in Indices(paiements) :
          paiements[k].refuseReason # Undefined => paiements[k].statut = "refuse"

\* C8: refusing a listing that exists, whatever its status and whatever
\* reason it already carries, leaves it "refuse" with the reason given, or
\* with the empty string when none is given.
C8_RefuseSetsReason ==
    \A id \in IdsOf(maisons), raison \in Raisons \cup {Str(<<>>)} :
       LET r == refuserMaison(ADMIN_PASSWORD, id, raison)
           i == find(r.maisons, id)
       IN  /\ r.code = 200
           /\ i # 0
           /\ r.maisons[i].statut = "refuse"
           /\ r.maisons[i].refuseReason =
                 (IF raison = Undefined THEN Str(<<>>) ELSE raison)
           /\ Len(r.maisons) = Len(maisons)

\* a listing refused twice carries a reason, and a third refusal is possible
C8_Witness ==
    \E i \in Indices(maisons) :
       /\ maisons[i].statut = "refuse"
       /\ maisons[i].refuseReason = Str(<<"x">>)
       /\ Cardinality(LogLines("REFUSER_MAISON", maisons[i].id)) = 2

\* C9: a listing deleted with success is, from then on, unknown to
\* GET /api/maisons/:id and absent from GET /api/maisons, and the step that
\* deletes it leaves none of its images in the uploads directory, where no
\* file name once removed is ever stored again.
C9_Deleted ==
    {adminLog[k].id : k \in {l \in Indices(adminLog) :
                                adminLog[l].action = "SUPPRIMER_MAISON"}}

C9_Gone ==
    \A id \in C9_Deleted :
       /\ getMaison(id).code = 404
       /\ \A j \in Indices(getMaisons.body) : getMaisons.body[j].id # id

C9_FilesGone ==
    /\ \A i \in Indices(maisons) :
          find(maisons', maisons[i].id) = 0 =>
             \A k \in Indices(maisons[i].images) :
                maisons[i].images[k] \notin uploads'
    /\ \A f \in 1..(nextUuid["image"] - 1) : f \notin uploads => f \notin uploads'
    /\ \A id \in IdsOf(maisons) :
          LET r == supprimerMaison(ADMIN_PASSWORD, id)
          IN  r.code = 200 /\ find(r.maisons, id) = 0

C9_DeleteIsFinal == [](C9_Gone) /\ [][C9_FilesGone]_vars

\* a validated listing with an image has been deleted
C9_Witness ==
    \E id \in C9_Deleted :
       /\ LogLines("VALIDER_MAISON", id) # {}
       /\ nextUuid["image"] > 1
       /\ uploads = {}

\* what the listing validation is specified to refuse
C10_Short(v, min) == ~Truthy(v) \/ Len(Trim(v.s)) < min

C10_Invalid(body) ==
    \/ C10_Short(body.titre, 3)
    \/ ~Truthy(body.prix) \/ ToNumber(body.prix) = NaN
    \/ C10_Short(body.ville, 2)
    \/ C10_Short(body.commune, 1)
    \/ C10_Short(body.quartier, 1)

\* C10: a submission that fails the field validation is answered 400,
\* leaves the listings file as it was and leaves none of the files stored
\* for it in the uploads directory.
C10_InvalidLeavesNothing ==
    \A body \in Bodies, n \in 0..MaxFiles :
       LET r == postMaisons(body, n)
       IN  C10_Invalid(body) =>
              /\ r.code = 400
              /\ r.maisons = maisons
              /\ Len(r.files) = n
              /\ \A k \in Indices(r.files) : r.files[k] \notin r.uploads

\* submissions with files have failed, and nothing else has happened
C10_Witness ==
    /\ nextUuid["image"] > 1
    /\ uploads = {}
    /\ maisons = <<>>
    /\ nextUuid["maison"] = 1

\* the collection files
Files == {"maisons", "utilisateurs", "paiements", "transactions"}

\* what may happen to the calls of a handler that reads and writes these
\* files: nothing, or one of them fails
IOs(names) == Faults(names) \cup {NoFault}

\* the reasons a refusal may carry: none, or one
C11_Raisons == {Undefined, Str(<<"x">>)}

\* an id that is given and names no record of the collection
Absent(list, id) == id # NoId /\ find(list, id) = 0

\* C11: an admin validate, reject or delete naming a listing id that is not
\* in the listings file, and an admin approve or reject naming a payment id
\* that is not in the payments file, is answered 404 and leaves the
\* listings, the users, the payments, the transactions, the uploads
\* directory and the admin log as they were, whatever call fails meanwhile.
C11_NotFoundChangesNothing ==
    /\ \A id \in IdInputs("maison") :
          Absent(maisons, id) =>
             \A io \in IOs({"maisons"}) :
                /\ validerMaisonUnder(io, ADMIN_PASSWORD, id) = Outcome(404)
                /\ supprimerMaisonUnder(io, ADMIN_PASSWORD, id) = Outcome(404)
                /\ \A raison \in C11_Raisons :
                      refuserMaisonUnder(io, ADMIN_PASSWORD, id, raison) = Outcome(404)
    /\ \A id \in IdInputs("paiement") :
          Absent(paiements, id) =>
             \A io \in IOs({"paiements", "transactions"}) :
                /\ validerPaiementUnder(io, ADMIN_PASSWORD, id) = Outcome(404)
                /\ \A raison \in C11_Raisons :
                      refuserPaiementUnder(io, ADMIN_PASSWORD, id, raison) = Outcome(404)

\* a listing has been deleted while a payment and its transaction remain:
\* the listing's id is now absent, and so is a payment id never issued
C11_Witness ==
    /\ LogLines("SUPPRIMER_MAISON", 1) # {}
    /\ Absent(maisons, 1)
    /\ Absent(paiements, nextUuid["paiement"])
    /\ paiements # <<>>
    /\ transactions # <<>>

\* C12: for a caller whose key adminAuth refuses, every admin route answers
\* 403 with nothing read (the answer carries no content) and leaves every
\* collection, the uploads directory and the admin log as they were.
C12_RefusedBeforeAccess ==
    \A key \in Keys :
       ~adminAuth(key) =>
          /\ adminGetMaisons(key) = [code |-> 403]
          /\ adminGetPaiements(key) = [code |-> 403]
          /\ adminGetUtilisateurs(key) = [code |-> 403]
          /\ adminStats(key) = [code |-> 403]
          /\ \A id \in IdInputs("maison"), io \in IOs({"maisons"}) :
                /\ validerMaisonUnder(io, key, id) = Outcome(403)
                /\ refuserMaisonUnder(io, key, id, Str(<<"x">>)) = Outcome(403)
                /\ supprimerMaisonUnder(io, key, id) = Outcome(403)
          /\ \A id \in IdInputs("paiement"), io \in IOs({"paiements", "transactions"}) :
                /\ validerPaiementUnder(io, key, id) = Outcome(403)
                /\ refuserPaiementUnder(io, key, id, Str(<<"x">>)) = Outcome(403)
          /\ \A id \in IdInputs("utilisateur"), io \in IOs({"utilisateurs"}) :
                supprimerUtilisateurUnder(io, key, id) = Outcome(403)

\* a listing with a stored file, a user and a payment are there to be
\* changed, and the administrator has already changed one of them
C12_Witness ==
    /\ maisons # <<>>
    /\ uploads # {}
    /\ utilisateurs # <<>>
    /\ paiements # <<>>
    /\ adminLog # <<>>

\* C13: an admin route in which a write of a collection file fails leaves
\* the four collections as they were before the request; in particular an
\* approval whose write of paiements.json or of transactions.json fails
\* leaves both files unchanged.
C13_Same(r) ==
    /\ r.maisons = maisons
    /\ r.utilisateurs = utilisateurs
    /\ r.paiements = paiements
    /\ r.transactions = transactions

C13_NoPartialCommit ==
    /\ \A id \in IdInputs("maison") :
          /\ C13_Same(validerMaisonUnder(WriteFault("maisons"), ADMIN_PASSWORD, id))
          /\ C13_Same(refuserMaisonUnder(WriteFault("maisons"), ADMIN_PASSWORD, id, Undefined))
          /\ C13_Same(supprimerMaisonUnder(WriteFault("maisons"), ADMIN_PASSWORD, id))
    /\ \A id \in IdInputs("utilisateur") :
          C13_Same(supprimerUtilisateurUnder(WriteFault("utilisateurs"), ADMIN_PASSWORD, id))
    /\ \A id \in IdInputs("paiement") :
          /\ C13_Same(refuserPaiementUnder(WriteFault("paiements"), ADMIN_PASSWORD, id, Undefined))
          /\ \A f \in {"paiements", "transactions"} :
                LET r == validerPaiementUnder(WriteFault(f), ADMIN_PASSWORD, id)
                IN  r.code = 500 => r.paiements = paiements /\ r.transactions = transactions

\* C14: a transaction stored in transactions.json is still there, the same,
\* after any step of the server, a step served with a failing read included.
C14_LedgerAppendOnly ==
    [][\A i \in Indices(transactions) :
          /\ i <= Len(transactions')
          /\ transactions'[i] = transactions[i]]_vars

\* what a successful admin mutation is to leave in its collection
C15_Statut(list, id, statut) ==
    LET i == find(list, id) IN i # 0 /\ list[i].statut = statut

\* the log after a route answered r: one more line, naming the action and
\* the id, on success, and the log as it was otherwise
C15_Logged(r, action, id) ==
    IF r.code = 200
    THEN r.adminLog = Append(adminLog, logAdmin(action, id))
    ELSE r.adminLog = adminLog

\* C15: an admin mutation answered with success leaves the admin log with
\* exactly one more line, naming its action and the id, and its collection
\* file with the transition written; an admin mutation answered otherwise
\* leaves the log as it was.  So a line is only ever appended, after the
\* write, and no line already in the log is lost or changed.
C15_OneEntryAfterPersist ==
    \A key \in {ADMIN_PASSWORD} :
       /\ \A id \in IdInputs("maison"), io \in IOs({"maisons"}) :
             /\ LET r == validerMaisonUnder(io, key, id)
                IN  /\ C15_Logged(r, "VALIDER_MAISON", id)
                    /\ r.code = 200 => C15_Statut(r.maisons, id, "valide")
             /\ LET r == refuserMaisonUnder(io, key, id, Str(<<"x">>))
                IN  /\ C15_Logged(r, "REFUSER_MAISON", id)
                    /\ r.code = 200 => C15_Statut(r.maisons, id, "refuse")
             /\ LET r == supprimerMaisonUnder(io, key, id)
                IN  /\ C15_Logged(r, "SUPPRIMER_MAISON", id)
                    /\ r.code = 200 => find(r.maisons, id) = 0
       /\ \A id \in IdInputs("paiement"), io \in IOs({"paiements", "transactions"}) :
             /\ LET r == validerPaiementUnder(io, key, id)
                IN  /\ C15_Logged(r, "VALIDER_PAIEMENT", id)
                    /\ r.code = 200 =>
                          /\ C15_Statut(r.paiements, id, "valide")
                          /\ r.transactions # <<>>
                          /\ r.transactions[Len(r.transactions)].paiementId = id
             /\ LET r == refuserPaiementUnder(io, key, id, Str(<<"x">>))
                IN  /\ C15_Logged(r, "REFUSER_PAIEMENT", id)
                    /\ r.code = 200 => C15_Statut(r.paiements, id, "refuse")
       /\ \A id \in IdInputs("utilisateur"), io \in IOs({"utilisateurs"}) :
             LET r == supprimerUtilisateurUnder(io, key, id)
             IN  /\ C15_Logged(r, "SUPPRIMER_UTILISATEUR", id)
                 /\ r.code = 200 => find(r.utilisateurs, id) = 0

\* a listing has been refused and a payment approved, each with its line
C15_Witness ==
    /\ adminLog = <<logAdmin("REFUSER_MAISON", 1), logAdmin("VALIDER_PAIEMENT", 1)>>
    /\ C15_Statut(maisons, 1, "refuse")
    /\ C15_Statut(paiements, 1, "valide")
    /\ Len(transactions) = 1

\* C16: an admin mutation whose append to the admin log fails is still
\* answered with success, its transition written.
C16_AuditFailureSwallowed ==
    /\ \A id \in IdsOf(maisons) :
          LET r == validerMaisonUnder(LogFault, ADMIN_PASSWORD, id)
          IN  r.code = 200 /\ C15_Statut(r.maisons, id, "valide")
    /\ \A id \in IdsOf(paiements) :
          LET r == refuserPaiementUnder(LogFault, ADMIN_PASSWORD, id, Undefined)
          IN  r.code = 200 /\ C15_Statut(r.paiements, id, "refuse")
    /\ \A id \in IdsOf(utilisateurs) :
          LET r == supprimerUtilisateurUnder(LogFault, ADMIN_PASSWORD, id)
          IN  r.code = 200 /\ find(r.utilisateurs, id) = 0

\* what the payment creation is specified to refuse
C17_Invalid(utilisateurId, maisonId, montant) ==
    \/ Missing(utilisateurId)
    \/ Missing(maisonId)
    \/ montant = Undefined
    \/ ToNumber(montant).t # "num"
    \/ ToNumber(montant).n <= 0

\* C17: a payment request without user, without listing, without amount or
\* with an amount that is not above zero is answered 400 and stores
\* nothing; every payment stored has an amount above zero.
C17_PositiveAmounts ==
    /\ \A u \in RefInputs, m \in RefInputs, montant \in Montants :
          C17_Invalid(u, m, montant) =>
             /\ postPaiements(u, m, montant).code = 400
             /\ postPaiements(u, m, montant).paiements = paiements
    /\ \A k \in Indices(paiements) :
          /\ paiements[k].montant.t = "num"
          /\ paiements[k].montant.n > 0

\* C18: every listing stored has a price of zero or more.
C18_PrixNonNegative ==
    \A i \in Indices(maisons) :
       /\ maisons[i].prix.t = "num"
       /\ maisons[i].prix.n >= 0

\* C19: deleting a listing leaves the users, the payments and the
\* transactions as they were, and deleting a user leaves the listings, the
\* uploads directory, the payments and the transactions as they were,
\* whether or not a payment names the id deleted.
C19_NoCascade ==
    /\ \A id \in IdInputs("maison"), io \in IOs({"maisons"}) :
          LET r == supprimerMaisonUnder(io, ADMIN_PASSWORD, id)
          IN  /\ r.utilisateurs = utilisateurs
              /\ r.paiements = paiements
              /\ r.transactions = transactions
    /\ \A id \in IdInputs("utilisateur"), io \in IOs({"utilisateurs"}) :
          LET r == supprimerUtilisateurUnder(io, ADMIN_PASSWORD, id)
          IN  /\ r.maisons = maisons
              /\ r.uploads = uploads
              /\ r.paiements = paiements
              /\ r.transactions = transactions

\* the listing and the user a stored payment names have both been deleted
C19_Witness ==
    /\ adminLog = <<logAdmin("SUPPRIMER_MAISON", 1), logAdmin("SUPPRIMER_UTILISATEUR", 1)>>
    /\ nextUuid["utilisateur"] > 1
    /\ maisons = <<>> /\ utilisateurs = <<>>
    /\ \E k \in Indices(paiements) :
          paiements[k].maison = 1 /\ paiements[k].utilisateur = 1

\* C20: while no call to the file system fails, every transaction stored
\* names a payment that is stored, that is "valide" or "refuse" (never
\* "en_attente"), and that has the amount of the transaction.
C20_TransactionsRefer ==
    \A i \in Indices(transactions) :
       LET k == find(paiements, transactions[i].paiementId)
       IN  /\ k # 0
           /\ paiements[k].statut # "en_attente"
           /\ paiements[k].statut \in {"valide", "refuse"}
           /\ paiements[k].montant = transactions[i].montant

\* a payment whose amount was not a number was approved, then refused
C20_Witness ==
    \E i \in Indices(transactions) :
       /\ transactions[i].montant = Null
       /\ C15_Statut(paiements, transactions[i].paiementId, "refuse")

====
